---- MODULE Spec2Model ----
(***************************************************************************)
(* Model of the Xiaomi Air Fresh fan entity: the status poller            *)
(* (get_status / async_update) and the command dispatcher (_try_command,  *)
(* send_raw_cmd and the async_* handlers), for both variants of the       *)
(* component: custom_components/xiaomi_airfresh/fan.py (14 properties,    *)
(* services, no optimistic update) and xiaomi_airfresh/fan.py (4          *)
(* properties, optimistic update with a skip-next-poll flag).             *)
(*                                                                         *)
(* Python values are modelled as strings ("None", "True", "False", "12",  *)
(* "auto", ...); device responses keep their Python type (list or str).   *)
(* Speed arguments are sequences of characters, so that str.title() is    *)
(* computed, not assumed.                                                  *)
(***************************************************************************)
EXTENDS Integers, Sequences, FiniteSets, TLC

VARIABLES
    impl,          \* which fan.py the entity is an instance of
    available,     \* self._available
    state,         \* self._state: "None", "True" or "False"
    state_attrs,   \* self._state_attrs
    skip_update,   \* self._skip_update
    updating,      \* async_update is suspended at its await of get_status
    status,        \* the snapshot the latest get_status returned (NoStatus if none)
    op,            \* the handler running on the event loop, with its argument
    response,      \* what the device answered to that handler's command
    sent,          \* the device calls that handler issued
    result,        \* what its send_raw_cmd returned ("None" if none)
    raised,        \* the exception that escaped it ("None" if none)
    devices,       \* hass.data[DATA_KEY]: the registered devices, by host
    handler        \* the running async_service_handler: its locals and what it did

vars == <<impl, available, state, state_attrs, skip_update, updating, status,
          op, response, sent, result, raised, devices, handler>>

(***************************************************************************)
(* Bounds of the environment.                                              *)
(***************************************************************************)
\* At most this many values are missing from the end of one get_prop answer.
MaxMissing == 1
\* At most this many surplus values are appended to one get_prop answer.
MaxExtra == 1
\* At most this many get_prop calls of one poll are answered with an error or
\* with a wrong number of values.
MaxFaults == 1

Min(a, b) == IF a < b THEN a ELSE b

(***************************************************************************)
(* Constants of the program.                                               *)
(***************************************************************************)
Custom == "custom_components"
Legacy == "xiaomi_airfresh"
Impls == {Custom, Legacy}

ATTR_MODEL == "model"
ATTR_MODE == "mode"
MODEL_AIRFRESH_A1 == "dmaker.airfresh.a1"

PyList(items) == [type |-> "list", val |-> items]
PyStr(s) == [type |-> "str", val |-> s]

SUCCESS == PyList(<<"ok">>)

\* The keys of AVAILABLE_ATTRIBUTES_AIRFRESH, in dictionary order; every key
\* maps to the status property of the same name.
AVAILABLE_ATTRIBUTES_AIRFRESH(i) ==
    IF i = Custom
    THEN <<"pm25", "co2", "mode", "temperature_outside", "favourite_speed",
           "filter_rate", "filter_day", "control_speed", "ptc_on",
           "ptc_status", "child_lock", "sound", "display">>
    ELSE <<"pm25", "co2", "mode">>

\* The local list `properties` of get_status.
Properties(i) ==
    IF i = Custom
    THEN <<"power", "pm25", "co2", "temperature_outside", "favourite_speed",
           "filter_rate", "filter_day", "control_speed", "ptc_on",
           "ptc_status", "child_lock", "sound", "display", "mode">>
    ELSE <<"power", "pm25", "co2", "mode">>

\* The slice width of get_status: _props[:4], _props[4:].
ChunkSize == 4

Range(s) == {s[k] : k \in 1..Len(s)}

(***************************************************************************)
(* class OperationMode(Enum): member names (as characters) and values.     *)
(***************************************************************************)
OperationMode ==
    { [name |-> <<"O", "f", "f">>, value |-> "off"],
      [name |-> <<"A", "u", "t", "o">>, value |-> "auto"],
      [name |-> <<"S", "l", "e", "e", "p">>, value |-> "sleep"],
      [name |-> <<"F", "a", "v", "o", "u", "r", "i", "t", "e">>,
       value |-> "favourite"] }

NoMember == [name |-> <<>>, value |-> "None"]

\* OperationMode[name]: the member, or NoMember where Python raises KeyError.
OperationModeByName(name) ==
    IF \E m \in OperationMode : m.name = name
    THEN CHOOSE m \in OperationMode : m.name = name
    ELSE NoMember

\* OperationMode(value): the member, or NoMember where Python raises ValueError.
OperationModeByValue(value) ==
    IF \E m \in OperationMode : m.value = value
    THEN CHOOSE m \in OperationMode : m.value = value
    ELSE NoMember

(***************************************************************************)
(* str.title() on strings of letters.                                      *)
(***************************************************************************)
LowerCase == <<"a", "e", "f", "i", "l", "m", "o", "p", "r", "s", "t", "u", "v", "x">>
UpperCase == <<"A", "E", "F", "I", "L", "M", "O", "P", "R", "S", "T", "U", "V", "X">>

IndexIn(s, c) == CHOOSE k \in 1..Len(s) : s[k] = c
IsLower(c) == c \in Range(LowerCase)
IsUpper(c) == c \in Range(UpperCase)
IsCased(c) == IsLower(c) \/ IsUpper(c)
ToUpper(c) == IF IsLower(c) THEN UpperCase[IndexIn(LowerCase, c)] ELSE c
ToLower(c) == IF IsUpper(c) THEN LowerCase[IndexIn(UpperCase, c)] ELSE c

\* A cased character is upper-cased when it starts a word (the previous
\* character is not cased) and lower-cased otherwise.
StrTitle(s) ==
    [k \in 1..Len(s) |->
        IF k > 1 /\ IsCased(s[k - 1]) THEN ToLower(s[k]) ELSE ToUpper(s[k])]

(***************************************************************************)
(* The device, as the entity sees it through self._device.send.            *)
(***************************************************************************)
\* Two states the device can be in when it is asked for its properties.
ProfileOn ==
    [power |-> "True", pm25 |-> "12", co2 |-> "430", mode |-> "auto",
     temperature_outside |-> "21", favourite_speed |-> "100",
     filter_rate |-> "80", filter_day |-> "90", control_speed |-> "60",
     ptc_on |-> "False", ptc_status |-> "False", child_lock |-> "False",
     sound |-> "True", display |-> "True"]
ProfileOff ==
    [power |-> "False", pm25 |-> "7", co2 |-> "600", mode |-> "favourite",
     temperature_outside |-> "5", favourite_speed |-> "150",
     filter_rate |-> "40", filter_day |-> "30", control_speed |-> "0",
     ptc_on |-> "True", ptc_status |-> "True", child_lock |-> "True",
     sound |-> "False", display |-> "False"]
Profiles == {ProfileOn, ProfileOff}

\* A surplus value in an answer that is longer than the request.
Junk == "0"

\* How the device treats one get_prop call: a transport error, or an answer
\* with delta values more (delta > 0) or fewer (delta < 0) than requested.
ChunkReplies ==
    {[err |-> TRUE, delta |-> 0]}
        \cup {[err |-> FALSE, delta |-> d] : d \in (0 - MaxMissing)..MaxExtra}
ExactReply == [err |-> FALSE, delta |-> 0]

\* One reply for each get_prop call a poll can make.
PollReplies(i) ==
    {replies \in [1..((Len(Properties(i)) + ChunkSize - 1) \div ChunkSize)
                    -> ChunkReplies] :
        Cardinality({k \in DOMAIN replies : replies[k] # ExactReply}) <= MaxFaults}

ReplyAt(replies, k) == IF k \in DOMAIN replies THEN replies[k] ELSE ExactReply

\* The answer to get_prop(names) of a device in state `profile`.
Answer(profile, names, delta) ==
    LET exact == [k \in 1..Len(names) |-> profile[names[k]]]
    IN  IF delta < 0
        THEN SubSeq(exact, 1, IF Len(exact) + delta < 0 THEN 0 ELSE Len(exact) + delta)
        ELSE exact \o [k \in 1..delta |-> Junk]

\* What a device can answer to a command: a list, a bare string, or a
\* transport error (DeviceException).
DeviceException == [type |-> "DeviceException", val |-> <<>>]
NoResponse == [type |-> "none", val |-> <<>>]
Responses ==
    { PyList(<<"ok">>), PyList(<<>>), PyList(<<"error">>),
      PyList(<<"ok", "ok">>), PyStr("ok"), DeviceException }

Call(method, params) == [method |-> method, params |-> params]

(***************************************************************************)
(* get_status                                                              *)
(***************************************************************************)
\* _props[:4]
Head4(props) == SubSeq(props, 1, Min(ChunkSize, Len(props)))

\* A variant that is off by one: _props[3:]
Rest4FromThird(props) == SubSeq(props, ChunkSize, Len(props))

\* _props[4:]
Rest4(props) == SubSeq(props, ChunkSize + 1, Len(props))

\* defaultdict(lambda: None, zip(properties, values))
Zip(properties, values) ==
    [n \in {properties[k] : k \in 1..Min(Len(properties), Len(values))} |->
        values[IndexIn(properties, n)]]
DataGet(data, key) == IF key \in DOMAIN data THEN data[key] ELSE "None"

NoStatus == [kind |-> "none", values |-> <<>>, data |-> <<>>]

\* The while loop of get_status: one get_prop call for each slice of _props,
\* until _props is empty or a call raises.
RECURSIVE GetStatusLoop(_, _, _, _, _)
GetStatusLoop(props, values, calls, profile, replies) ==
    IF props = <<>>
    THEN [exc |-> FALSE, values |-> values, calls |-> calls]
    ELSE LET reply == ReplyAt(replies, Len(calls) + 1)
             call == Call("get_prop", PyList(Head4(props)))
         IN  IF reply.err
             THEN [exc |-> TRUE, values |-> values, calls |-> Append(calls, call)]
             ELSE GetStatusLoop(Rest4(props),
                                values \o Answer(profile, Head4(props), reply.delta),
                                Append(calls, call), profile, replies)

\* get_status: the calls it makes and the AirFreshDeviceStatus it returns (or
\* the DeviceException that escapes it).
GetStatus(i, profile, replies) ==
    LET run == GetStatusLoop(Properties(i), <<>>, <<>>, profile, replies)
    IN  [calls |-> run.calls,
         status |-> IF run.exc
                    THEN [kind |-> "DeviceException", values |-> <<>>, data |-> <<>>]
                    ELSE [kind |-> "snapshot", values |-> run.values,
                          data |-> Zip(Properties(i), run.values)]]

(***************************************************************************)
(* AirFreshDeviceStatus and _extract_value_from_attribute                  *)
(***************************************************************************)
\* AirFreshDeviceStatus.is_on: self.power == True
IsOn(data) == IF DataGet(data, "power") = "True" THEN "True" ELSE "False"

\* getattr(state, attribute): the mode property builds an OperationMode and
\* raises ValueError for a value that is no member's value; every other
\* property returns the stored value.
StatusGetattr(data, attribute) ==
    IF attribute = ATTR_MODE
    THEN LET m == OperationModeByValue(DataGet(data, "mode"))
         IN  IF m = NoMember
             THEN [kind |-> "ValueError", obj |-> "None", member |-> NoMember]
             ELSE [kind |-> "enum", obj |-> "None", member |-> m]
    ELSE [kind |-> "plain", obj |-> DataGet(data, attribute), member |-> NoMember]

\* A variant that returns the member's name: return value.name
ExtractNameFromAttribute(data, attribute) ==
    LET value == StatusGetattr(data, attribute)
    IN  IF value.kind = "enum" THEN value.member.name ELSE value.obj

ExtractValueFromAttribute(data, attribute) ==
    LET value == StatusGetattr(data, attribute)
    IN  IF value.kind = "enum" THEN value.member.value ELSE value.obj

\* some attribute of the comprehension raises
ExtractRaises(i, data) ==
    \E k \in 1..Len(AVAILABLE_ATTRIBUTES_AIRFRESH(i)) :
        StatusGetattr(data, AVAILABLE_ATTRIBUTES_AIRFRESH(i)[k]).kind = "ValueError"

(***************************************************************************)
(* async_update                                                            *)
(***************************************************************************)
NoOp == [name |-> "none", arg |-> <<>>]
UpdateOp == [name |-> "async_update", arg |-> <<>>]

\* A variant that returns on a set skip flag without clearing it.
AsyncUpdateKeepsFlag ==
    /\ op = NoOp
    /\ ~updating
    /\ skip_update' = skip_update
    /\ updating' = ~skip_update
    /\ op' = UpdateOp
    /\ response' = NoResponse
    /\ sent' = <<>>
    /\ result' = "None"
    /\ raised' = "None"
    /\ status' = NoStatus
    /\ UNCHANGED <<impl, available, state, state_attrs, devices, handler>>

\* async_update up to its await: a set skip flag is cleared and the poll
\* returns; otherwise get_status is handed to the executor.
AsyncUpdate ==
    /\ op = NoOp
    /\ ~updating
    /\ IF skip_update
       THEN /\ skip_update' = FALSE
            /\ updating' = FALSE
       ELSE /\ skip_update' = skip_update
            /\ updating' = TRUE
    /\ op' = UpdateOp
    /\ response' = NoResponse
    /\ sent' = <<>>
    /\ result' = "None"
    /\ raised' = "None"
    /\ status' = NoStatus
    /\ UNCHANGED <<impl, available, state, state_attrs, devices, handler>>

\* A variant whose except branch also forgets the power state.
async_update_body_resets_state(i, e, st) ==
    IF st.kind = "DeviceException"
    THEN [e EXCEPT !.available = FALSE, !.state = "None"]
    ELSE LET e1 == [e EXCEPT !.available = TRUE, !.state = IsOn(st.data)]
         IN  IF ExtractRaises(i, st.data)
             THEN [e1 EXCEPT !.raised = "ValueError"]
             ELSE [e1 EXCEPT !.state_attrs =
                     [a \in DOMAIN @ |->
                        IF a \in Range(AVAILABLE_ATTRIBUTES_AIRFRESH(i))
                        THEN ExtractValueFromAttribute(st.data, a)
                        ELSE @[a]]]

\* A variant whose try branch forgets self._available = True.
async_update_body_stays_unavailable(i, e, st) ==
    IF st.kind = "DeviceException"
    THEN [e EXCEPT !.available = FALSE]
    ELSE LET e1 == [e EXCEPT !.state = IsOn(st.data)]
         IN  IF ExtractRaises(i, st.data)
             THEN [e1 EXCEPT !.raised = "ValueError"]
             ELSE [e1 EXCEPT !.state_attrs =
                     [a \in DOMAIN @ |->
                        IF a \in Range(AVAILABLE_ATTRIBUTES_AIRFRESH(i))
                        THEN ExtractValueFromAttribute(st.data, a)
                        ELSE @[a]]]

\* The body of async_update after get_status returned `st` (or raised):
\* the fields [available, state, state_attrs, raised] it leaves behind.
async_update_body(i, e, st) ==
    IF st.kind = "DeviceException"
    THEN [e EXCEPT !.available = FALSE]
    ELSE LET e1 == [e EXCEPT !.available = TRUE, !.state = IsOn(st.data)]
         IN  IF ExtractRaises(i, st.data)
             THEN [e1 EXCEPT !.raised = "ValueError"]
             ELSE [e1 EXCEPT !.state_attrs =
                     [a \in DOMAIN @ |->
                        IF a \in Range(AVAILABLE_ATTRIBUTES_AIRFRESH(i))
                        THEN ExtractValueFromAttribute(st.data, a)
                        ELSE @[a]]]

\* async_update from its await on: get_status has run in the executor against
\* a device in state `profile` that treats the calls as `replies` say.
AsyncUpdateResume(profile, replies) ==
    /\ op = NoOp
    /\ updating
    /\ \E got \in {GetStatus(impl, profile, replies)} :
          \E e \in {async_update_body(impl,
                        [available |-> available, state |-> state,
                         state_attrs |-> state_attrs, raised |-> "None"],
                        got.status)} :
             /\ sent' = got.calls
             /\ status' = got.status
             /\ available' = e.available
             /\ state' = e.state
             /\ state_attrs' = e.state_attrs
             /\ raised' = e.raised
    /\ updating' = FALSE
    /\ op' = UpdateOp
    /\ response' = NoResponse
    /\ result' = "None"
    /\ UNCHANGED <<impl, skip_update, devices, handler>>

(***************************************************************************)
(* _try_command, send_raw_cmd and the command handlers.  A handler is a    *)
(* function of the entity's fields `e` (with the calls sent so far, the    *)
(* value the latest send_raw_cmd returned, the exception that escaped and  *)
(* the value the handler returns) and of the device's answer `outcome`.    *)
(***************************************************************************)
\* from homeassistant.components.fan import SUPPORT_SET_SPEED
SUPPORT_SET_SPEED == 1

\* Python's == on responses: same type and same content.
PyEq(a, b) == a.type = b.type /\ a.val = b.val

\* Truth value of True, False and None.
Truthy(v) == v = "True"

PyBool(b) == IF b THEN "True" ELSE "False"

\* A variant that looks only at the first element: return result[0] == "ok"
TryCommandReturnFirstElement(outcome) ==
    PyBool(outcome.type = "list" /\ Len(outcome.val) > 0 /\ outcome.val[1] = "ok")

\* return result == SUCCESS
TryCommandReturn(outcome) == PyBool(PyEq(outcome, SUCCESS))

\* A variant whose except branch forgets self._available = False.
try_command_keeps_available(e, call, outcome) ==
    IF outcome = DeviceException
    THEN [e EXCEPT !.sent = Append(@, call), !.ret = "False"]
    ELSE [e EXCEPT !.sent = Append(@, call), !.ret = TryCommandReturn(outcome)]

\* A variant whose except branch sends the command once more before giving up.
try_command_retries(e, call, outcome) ==
    IF outcome = DeviceException
    THEN [e EXCEPT !.sent = Append(Append(@, call), call), !.available = FALSE,
                   !.ret = "False"]
    ELSE [e EXCEPT !.sent = Append(@, call), !.ret = TryCommandReturn(outcome)]

try_command(e, call, outcome) ==
    IF outcome = DeviceException
    THEN [e EXCEPT !.sent = Append(@, call), !.available = FALSE, !.ret = "False"]
    ELSE [e EXCEPT !.sent = Append(@, call), !.ret = TryCommandReturn(outcome)]

send_raw_cmd(e, command, parameters, outcome) ==
    LET r == try_command(e, Call(command, parameters), outcome)
    IN  [r EXCEPT !.result = r.ret]

\* A variant that forgets the test of result.
OptimisticUpdateUnconditional(i, r, power) ==
    IF i = Legacy
    THEN [r EXCEPT !.state = power, !.skip_update = TRUE, !.ret = "None"]
    ELSE [r EXCEPT !.ret = "None"]

\* A variant that also marks the entity available after a successful command.
OptimisticUpdateAvailable(i, r, power) ==
    IF i = Legacy /\ Truthy(r.ret)
    THEN [r EXCEPT !.state = power, !.skip_update = TRUE, !.available = TRUE,
                   !.ret = "None"]
    ELSE [r EXCEPT !.ret = "None"]

\* A variant in which custom_components/xiaomi_airfresh/fan.py has the
\* optimistic tail as well.
OptimisticUpdateInBothFiles(i, r, power) ==
    IF Truthy(r.ret)
    THEN [r EXCEPT !.state = power, !.skip_update = TRUE, !.ret = "None"]
    ELSE [r EXCEPT !.ret = "None"]

\* The tail of async_turn_on / async_turn_off in xiaomi_airfresh/fan.py:
\* if result: self._state = <power>; self._skip_update = True
OptimisticUpdate(i, r, power) ==
    IF i = Legacy /\ Truthy(r.ret)
    THEN [r EXCEPT !.state = power, !.skip_update = TRUE, !.ret = "None"]
    ELSE [r EXCEPT !.ret = "None"]

async_turn_off(i, e, outcome) ==
    OptimisticUpdate(i, send_raw_cmd(e, "set_power", PyList(<<"False">>), outcome),
                     "False")

\* A variant without the branch for "off".
async_set_speed_always_mode(i, e, speed, outcome) ==
    LET m == OperationModeByName(StrTitle(speed))
    IN  IF m = NoMember
        THEN [e EXCEPT !.raised = "KeyError"]
        ELSE [send_raw_cmd(e, "set_mode", PyStr(m.value), outcome)
                  EXCEPT !.ret = "None"]

async_set_speed(i, e, speed, outcome) ==
    IF SUPPORT_SET_SPEED = 0
    THEN [e EXCEPT !.ret = "None"]
    ELSE LET m == OperationModeByName(StrTitle(speed))
         IN  IF m = NoMember
             THEN [e EXCEPT !.raised = "KeyError"]
             ELSE IF m.value = "off"
                  THEN [async_turn_off(i, e, outcome) EXCEPT !.ret = "None"]
                  ELSE [send_raw_cmd(e, "set_mode", PyStr(m.value), outcome)
                            EXCEPT !.ret = "None"]

\* A variant that turns the power on whatever the speed.
async_turn_on_ignores_speed(i, e, speed, outcome) ==
    OptimisticUpdate(i, send_raw_cmd(e, "set_power", PyList(<<"True">>), outcome),
                     "True")

async_turn_on(i, e, speed, outcome) ==
    LET r == IF speed # <<>>
             THEN async_set_speed(i, e, speed, outcome)
             ELSE send_raw_cmd(e, "set_power", PyList(<<"True">>), outcome)
    IN  IF r.raised # "None" THEN r ELSE OptimisticUpdate(i, r, "True")

\* The eight service methods of custom_components/xiaomi_airfresh/fan.py and
\* the device call each one makes.
ServiceMethods ==
    {"async_set_ptc_on", "async_set_ptc_off", "async_set_favourite_speed",
     "async_set_sound_on", "async_set_sound_off", "async_set_display_on",
     "async_set_display_off", "async_set_filter_reset"}

\* A variant whose async_set_sound_off sends [True] as async_set_sound_on does.
ServiceCommandSoundOffSendsTrue(method, arg) ==
    CASE method = "async_set_ptc_on" -> Call("set_ptc_on", PyList(<<"True">>))
      [] method = "async_set_ptc_off" -> Call("set_ptc_on", PyList(<<"False">>))
      [] method = "async_set_favourite_speed" -> Call("set_favourite_speed", PyList(arg))
      [] method = "async_set_sound_on" -> Call("set_sound_on", PyList(<<"True">>))
      [] method = "async_set_sound_off" -> Call("set_sound_on", PyList(<<"True">>))
      [] method = "async_set_display_on" -> Call("set_display_on", PyList(<<"True">>))
      [] method = "async_set_display_off" -> Call("set_display_on", PyList(<<"False">>))
      [] method = "async_set_filter_reset" -> Call("set_filter_reset", PyList(<<"True">>))

ServiceCommand(method, arg) ==
    CASE method = "async_set_ptc_on" -> Call("set_ptc_on", PyList(<<"True">>))
      [] method = "async_set_ptc_off" -> Call("set_ptc_on", PyList(<<"False">>))
      [] method = "async_set_favourite_speed" -> Call("set_favourite_speed", PyList(arg))
      [] method = "async_set_sound_on" -> Call("set_sound_on", PyList(<<"True">>))
      [] method = "async_set_sound_off" -> Call("set_sound_on", PyList(<<"False">>))
      [] method = "async_set_display_on" -> Call("set_display_on", PyList(<<"True">>))
      [] method = "async_set_display_off" -> Call("set_display_on", PyList(<<"False">>))
      [] method = "async_set_filter_reset" -> Call("set_filter_reset", PyList(<<"True">>))

async_set(e, method, arg, outcome) ==
    LET c == ServiceCommand(method, arg)
    IN  [send_raw_cmd(e, c.method, c.params, outcome) EXCEPT !.ret = "None"]

(***************************************************************************)
(* Inputs of the handlers.                                                 *)
(***************************************************************************)
LowerOf(s) == [k \in 1..Len(s) |-> ToLower(s[k])]
UpperOf(s) == [k \in 1..Len(s) |-> ToUpper(s[k])]

\* The speed argument: every mode name as listed, in lower case and in upper
\* case, a name that is no mode, and the empty value (None or "").
NoSpeed == <<>>
Speeds ==
    UNION {{m.name, LowerOf(m.name), UpperOf(m.name)} : m \in OperationMode}
        \cup {<<"M", "a", "x">>, NoSpeed}

\* The arguments of a service method: the speed of async_set_favourite_speed.
ServiceArgs(method) ==
    IF method = "async_set_favourite_speed" THEN {<<"0">>, <<"200">>} ELSE {<<>>}

(***************************************************************************)
(* The handlers as actions.  The event loop runs one handler at a time:    *)
(* `op` names the one that is running and Return ends it.  A command runs  *)
(* to completion in one step: its only await is the device call, and it    *)
(* reads no field of the entity before it.                                 *)
(***************************************************************************)
Entity ==
    [available |-> available, state |-> state, skip_update |-> skip_update,
     sent |-> <<>>, result |-> "None", raised |-> "None", ret |-> "None"]

Commit(e, o, outcome) ==
    /\ op = NoOp
    /\ available' = e.available
    /\ state' = e.state
    /\ skip_update' = e.skip_update
    /\ sent' = e.sent
    /\ result' = e.result
    /\ raised' = e.raised
    /\ op' = o
    /\ response' = IF e.sent = <<>> THEN NoResponse ELSE outcome
    /\ status' = NoStatus
    /\ UNCHANGED <<impl, state_attrs, updating, devices, handler>>

AsyncTurnOn(speed, outcome) ==
    Commit(async_turn_on(impl, Entity, speed, outcome),
           [name |-> "async_turn_on", arg |-> speed], outcome)

AsyncTurnOff(outcome) ==
    Commit(async_turn_off(impl, Entity, outcome),
           [name |-> "async_turn_off", arg |-> <<>>], outcome)

AsyncSetSpeed(speed, outcome) ==
    Commit(async_set_speed(impl, Entity, speed, outcome),
           [name |-> "async_set_speed", arg |-> speed], outcome)

AsyncSet(method, arg, outcome) ==
    /\ impl = Custom
    /\ Commit(async_set(Entity, method, arg, outcome),
              [name |-> method, arg |-> arg], outcome)

\* The running handler returns (or its exception reaches the host).
Return ==
    /\ op # NoOp
    /\ op' = NoOp
    /\ response' = NoResponse
    /\ sent' = <<>>
    /\ result' = "None"
    /\ raised' = "None"
    /\ status' = NoStatus
    /\ UNCHANGED <<impl, available, state, state_attrs, skip_update, updating,
                   devices, handler>>

\* The speed property, read by the host when it writes the entity's state:
\* the name of the mode while the power is on, None otherwise; OperationMode
\* raises ValueError for a value that is no mode.
SpeedProperty(st, attrs) ==
    IF Truthy(st)
    THEN LET m == OperationModeByValue(attrs[ATTR_MODE])
         IN  IF m = NoMember
             THEN [raised |-> "ValueError", name |-> <<>>]
             ELSE [raised |-> "None", name |-> m.name]
    ELSE [raised |-> "None", name |-> <<>>]

\* self._state_attrs as __init__ leaves it.
InitialAttrs(i) ==
    [a \in {ATTR_MODEL} \cup Range(AVAILABLE_ATTRIBUTES_AIRFRESH(i)) |->
        IF a = ATTR_MODEL THEN MODEL_AIRFRESH_A1 ELSE "None"]

(***************************************************************************)
(* The services of custom_components/xiaomi_airfresh/fan.py:               *)
(* async_service_handler over the registry hass.data[DATA_KEY].            *)
(***************************************************************************)
\* The hosts of hass.data[DATA_KEY], in the order the platforms were set up
\* (the order .values() yields the devices in), and the entity id the host
\* framework gave to the device of each.
Hosts == <<"192.168.1.10", "192.168.1.11">>
EntityId(h) ==
    IF h = "192.168.1.10" THEN "fan.airfresh_bedroom" ELSE "fan.airfresh_kitchen"

\* XiaomiAirFreshDevice.__init__
NewDevice(h) ==
    [entity_id |-> EntityId(h), available |-> FALSE, state |-> "None",
     state_attrs |-> InitialAttrs(Custom), skip_update |-> FALSE]

SERVICE_SET_PTC_ON == "airfresh_set_ptc_on"
SERVICE_SET_PTC_OFF == "airfresh_set_ptc_off"
SERVICE_SET_SOUND_ON == "airfresh_set_sound_on"
SERVICE_SET_SOUND_OFF == "airfresh_set_sound_off"
SERVICE_SET_DISPLAY_ON == "airfresh_set_display_on"
SERVICE_SET_DISPLAY_OFF == "airfresh_set_display_off"
SERVICE_SET_FILTER_RESET == "airfresh_set_filter_reset"
SERVICE_SET_FAVOURITE_SPEED == "airfresh_set_favourite_speed"

Services ==
    {SERVICE_SET_PTC_ON, SERVICE_SET_PTC_OFF, SERVICE_SET_FAVOURITE_SPEED,
     SERVICE_SET_SOUND_ON, SERVICE_SET_SOUND_OFF, SERVICE_SET_DISPLAY_ON,
     SERVICE_SET_DISPLAY_OFF, SERVICE_SET_FILTER_RESET}

\* SERVICE_TO_METHOD[service]["method"]
SERVICE_TO_METHOD(service) ==
    CASE service = SERVICE_SET_PTC_ON -> "async_set_ptc_on"
      [] service = SERVICE_SET_PTC_OFF -> "async_set_ptc_off"
      [] service = SERVICE_SET_FAVOURITE_SPEED -> "async_set_favourite_speed"
      [] service = SERVICE_SET_SOUND_ON -> "async_set_sound_on"
      [] service = SERVICE_SET_SOUND_OFF -> "async_set_sound_off"
      [] service = SERVICE_SET_DISPLAY_ON -> "async_set_display_on"
      [] service = SERVICE_SET_DISPLAY_OFF -> "async_set_display_off"
      [] service = SERVICE_SET_FILTER_RESET -> "async_set_filter_reset"

\* service.data.get(ATTR_ENTITY_ID): absent, or a list of entity ids (its
\* members are all that the handler looks at).  The ids a caller may name are
\* those of the registered devices and one of an entity that is not in the
\* registry.
NoEntityIds == [given |-> FALSE, ids |-> {}]
EntityIdLists ==
    {NoEntityIds} \cup
    {[given |-> TRUE, ids |-> s] :
        s \in SUBSET ({EntityId(Hosts[k]) : k \in 1..Len(Hosts)} \cup {"fan.other"})}

\* A variant that ignores the entity filter.
TargetDevicesUnfiltered(reg, entity_ids) == Hosts

\* The devices the handler iterates over: those of the registry whose
\* entity_id is in entity_ids, or all of them when entity_ids is falsy
\* (absent or empty).
TargetDevices(reg, entity_ids) ==
    IF entity_ids.given /\ entity_ids.ids # {}
    THEN SelectSeq(Hosts, LAMBDA h : reg[h].entity_id \in entity_ids.ids)
    ELSE Hosts

NoCalls == [h \in Range(Hosts) |-> <<>>]
NoRefresh == [h \in Range(Hosts) |-> 0]
NoResults == [h \in Range(Hosts) |-> "None"]

\* No service call is running.
IdleHandler ==
    [pc |-> "idle", service |-> "none", params |-> <<>>, entity_ids |-> NoEntityIds,
     todo |-> <<>>, update_tasks |-> <<>>, pending |-> {},
     received |-> NoCalls, results |-> NoResults, refreshed |-> NoRefresh]

\* The fields of a registered device as the command handlers take them.
DeviceEntity(d) ==
    [available |-> d.available, state |-> d.state, skip_update |-> d.skip_update,
     sent |-> <<>>, result |-> "None", raised |-> "None", ret |-> "None"]

\* async_service_handler up to its loop: method, params and devices.
AsyncServiceHandler(service, params, entity_ids) ==
    /\ handler.pc = "idle"
    /\ LET targets == TargetDevices(devices, entity_ids)
       IN  handler' =
             [IdleHandler EXCEPT
                !.pc = IF targets = <<>> THEN "done" ELSE "commands",
                !.service = service, !.params = params,
                !.entity_ids = entity_ids, !.todo = targets]
    /\ UNCHANGED <<devices, impl, available, state, state_attrs, skip_update,
                   updating, status, op, response, sent, result, raised>>

\* One round of the loop: the method of the next device is awaited, the
\* device answering `outcome`, and its refresh is added to update_tasks.
\* After the last round the tasks are handed to asyncio.wait.
ServiceHandlerCommand(outcome) ==
    /\ handler.pc = "commands"
    /\ LET h == Head(handler.todo)
           e == async_set(DeviceEntity(devices[h]),
                          SERVICE_TO_METHOD(handler.service), handler.params,
                          outcome)
           rest == Tail(handler.todo)
           tasks == Append(handler.update_tasks, h)
       IN  /\ devices' = [devices EXCEPT
                            ![h].available = e.available,
                            ![h].state = e.state,
                            ![h].skip_update = e.skip_update]
           /\ handler' = [handler EXCEPT
                            !.todo = rest,
                            !.update_tasks = tasks,
                            !.received[h] = @ \o e.sent,
                            !.results[h] = e.result,
                            !.pc = IF rest = <<>> THEN "refresh" ELSE "commands",
                            !.pending = IF rest = <<>> THEN Range(tasks) ELSE {}]
    /\ UNCHANGED <<impl, available, state, state_attrs, skip_update, updating,
                   status, op, response, sent, result, raised>>

\* How the device treats the get_prop calls of a forced refresh: each call is
\* answered in full or fails with a transport error.
RefreshReplies ==
    {replies \in PollReplies(Custom) : \A k \in DOMAIN replies : replies[k].delta = 0}

\* One task of update_tasks, device.async_update_ha_state(True), runs: the
\* device's async_update against a device in state `profile` that treats the
\* get_prop calls as `replies` say.
ServiceHandlerRefresh(h, profile, replies) ==
    /\ handler.pc = "refresh"
    /\ h \in handler.pending
    /\ LET d == devices[h]
           e == async_update_body(Custom,
                    [available |-> d.available, state |-> d.state,
                     state_attrs |-> d.state_attrs, raised |-> "None"],
                    GetStatus(Custom, profile, replies).status)
       IN  devices' =
             IF d.skip_update
             THEN [devices EXCEPT ![h].skip_update = FALSE]
             ELSE [devices EXCEPT ![h].available = e.available,
                                  ![h].state = e.state,
                                  ![h].state_attrs = e.state_attrs]
    /\ handler' = [handler EXCEPT
                     !.pending = @ \ {h},
                     !.refreshed[h] = @ + 1,
                     !.pc = IF handler.pending = {h} THEN "done" ELSE "refresh"]
    /\ UNCHANGED <<impl, available, state, state_attrs, skip_update, updating,
                   status, op, response, sent, result, raised>>

\* async_service_handler returns.
ServiceHandlerReturn ==
    /\ handler.pc = "done"
    /\ handler' = IdleHandler
    /\ UNCHANGED <<devices, impl, available, state, state_attrs, skip_update,
                   updating, status, op, response, sent, result, raised>>

(***************************************************************************)
(* The specification.                                                      *)
(***************************************************************************)
Init ==
    /\ impl \in Impls
    /\ available = FALSE
    /\ state = "None"
    /\ state_attrs = InitialAttrs(impl)
    /\ skip_update = FALSE
    /\ updating = FALSE
    /\ status = NoStatus
    /\ op = NoOp
    /\ response = NoResponse
    /\ sent = <<>>
    /\ result = "None"
    /\ raised = "None"
    /\ devices = [h \in Range(Hosts) |-> NewDevice(h)]
    /\ handler = IdleHandler

Next ==
    \/ AsyncUpdate
    \/ \E profile \in Profiles, replies \in PollReplies(impl) :
          AsyncUpdateResume(profile, replies)
    \/ \E speed \in Speeds, outcome \in Responses : AsyncTurnOn(speed, outcome)
    \/ \E outcome \in Responses : AsyncTurnOff(outcome)
    \/ \E speed \in Speeds, outcome \in Responses : AsyncSetSpeed(speed, outcome)
    \/ \E method \in ServiceMethods, outcome \in Responses :
          \E arg \in ServiceArgs(method) : AsyncSet(method, arg, outcome)
    \/ Return

Spec == Init /\ [][Next]_vars

\* The service calls alone, on the devices of the registry.
InitService == Init /\ impl = Custom

NextService ==
    \/ \E service \in Services, entity_ids \in EntityIdLists :
          \E params \in ServiceArgs(SERVICE_TO_METHOD(service)) :
             AsyncServiceHandler(service, params, entity_ids)
    \/ \E outcome \in Responses : ServiceHandlerCommand(outcome)
    \/ \E h \in Range(Hosts), profile \in Profiles, replies \in RefreshReplies :
          ServiceHandlerRefresh(h, profile, replies)
    \/ ServiceHandlerReturn

SpecService == InitService /\ [][NextService]_vars

\* The entity from a moment at which it is unavailable on, with a device that
\* answers every request correctly from then on: every get_prop in full,
\* every command with ["ok"].  The entity is as __init__ left it, or (in
\* xiaomi_airfresh/fan.py) has an optimistic power, its flag armed or spent.
AllExact(i) ==
    [k \in 1..((Len(Properties(i)) + ChunkSize - 1) \div ChunkSize) |-> ExactReply]

InitLive ==
    /\ impl \in Impls
    /\ available = FALSE
    /\ \E p \in {<<"None", FALSE>>} \cup
                 (IF impl = Legacy THEN {"True", "False"} \X BOOLEAN ELSE {}) :
          /\ state = p[1]
          /\ skip_update = p[2]
    /\ state_attrs = InitialAttrs(impl)
    /\ updating = FALSE
    /\ status = NoStatus
    /\ op = NoOp
    /\ response = NoResponse
    /\ sent = <<>>
    /\ result = "None"
    /\ raised = "None"
    /\ devices = [h \in Range(Hosts) |-> NewDevice(h)]
    /\ handler = IdleHandler

AsyncUpdateResumeExact == \E profile \in Profiles :
                             AsyncUpdateResume(profile, AllExact(impl))

NextLive ==
    \/ AsyncUpdate
    \/ AsyncUpdateResumeExact
    \/ \E speed \in Speeds : AsyncTurnOn(speed, SUCCESS)
    \/ AsyncTurnOff(SUCCESS)
    \/ \E speed \in Speeds : AsyncSetSpeed(speed, SUCCESS)
    \/ Return

\* The host keeps invoking polls: the poll timer fires again whenever the
\* event loop is free, however often commands run in between.  The executor
\* finishes get_status and the event loop resumes the poll; a running handler
\* returns.
SpecLive ==
    /\ InitLive
    /\ [][NextLive]_vars
    /\ SF_vars(AsyncUpdate)
    /\ SF_vars(AsyncUpdateResumeExact)
    /\ WF_vars(Return)

(***************************************************************************)
(* Properties.                                                             *)
(***************************************************************************)
\* The running handler is a command handler that called the device.
CommandRan == op.name \notin {"none", "async_update"} /\ sent # <<>>
CommandRan_next == op'.name \notin {"none", "async_update"} /\ sent' # <<>>
\* The running handler is the continuation of a poll.
PollRan == op = UpdateOp /\ status.kind # "none"
PollRan_next == op' = UpdateOp /\ status'.kind # "none"

IsOkList(r) == r.type = "list" /\ r.val = <<"ok">>

\* C1: send_raw_cmd (the value of _try_command) returns True exactly when the
\* device's response is the one-element list ["ok"]; an empty list, another
\* single element, several elements and a bare "ok" string all return False.
C1_SuccessIffOkList ==
    CommandRan =>
        /\ result \in {"True", "False"}
        /\ result = "True" <=> IsOkList(response)

C1_Witness ==
    CommandRan /\ response.type = "str" /\ response.val = "ok" /\ result = "False"

\* C2: a transport error during a command does not escape the handler: the
\* dispatcher returns False, the entity becomes unavailable, and power,
\* attributes and the skip-next-poll flag stay as they were.
C2_TransportErrorMasked ==
    [][(CommandRan_next /\ response' = DeviceException) =>
            /\ raised' = "None"
            /\ result' = "False"
            /\ available' = FALSE
            /\ state' = state
            /\ state_attrs' = state_attrs
            /\ skip_update' = skip_update]_vars

C2_Witness ==
    /\ op.name = "async_turn_off"
    /\ response = DeviceException
    /\ ~available
    /\ state = "True"
    /\ skip_update

\* C3: a poll in which a get_prop call fails with a transport error makes the
\* entity unavailable and applies nothing: neither the step that starts the
\* poll nor the one that ends it changes power, attributes or the skip flag,
\* and no exception escapes.
C3_FailedPollAppliesNothing ==
    [][/\ (op' = UpdateOp /\ updating') =>
              UNCHANGED <<available, state, state_attrs, skip_update>>
       /\ (PollRan_next /\ status'.kind = "DeviceException") =>
              /\ available' = FALSE
              /\ raised' = "None"
              /\ UNCHANGED <<state, state_attrs, skip_update>>]_vars

\* the third of the four get_prop calls failed, after an earlier poll had
\* reported the device on
C3_Witness ==
    /\ PollRan
    /\ status.kind = "DeviceException"
    /\ Len(sent) = 3
    /\ ~available
    /\ state = "True"
    /\ state_attrs[ATTR_MODE] = "auto"

\* The attribute values async_update stores for a snapshot `data`: the value
\* read for each name, None for a name without a value.
ZippedAttrs(data) ==
    [a \in DOMAIN state_attrs |->
        IF a = ATTR_MODEL THEN MODEL_AIRFRESH_A1 ELSE DataGet(data, a)]

CountMismatch == status.kind = "snapshot" /\ Len(status.values) # Len(Properties(impl))

\* C4: when the device returns fewer or more values than were requested, the
\* poll still completes: nothing escapes async_update, names without a value
\* read as None and the entity's attributes are those of the position-wise zip.
C4_MismatchCompletes ==
    (PollRan /\ CountMismatch) =>
        /\ raised = "None"
        /\ available
        /\ state = IsOn(status.data)
        /\ state_attrs = ZippedAttrs(status.data)

\* C5 as stated: after any command whose dispatcher result is False, whether
\* by a transport error or by a response other than ["ok"], the entity is
\* unavailable.
C5_FailedCommandUnavailable ==
    (CommandRan /\ result = "False") => ~available

\* C5 as amended: after a command that fails with a transport error the
\* entity is unavailable, and only a poll whose get_prop calls all returned
\* makes it available again: no command, optimistic update or skipped poll
\* does.
C5_TransportFailureUntilPoll ==
    [][/\ (CommandRan_next /\ response' = DeviceException) => ~available'
       /\ (~available /\ available') => (PollRan_next /\ status'.kind = "snapshot")
      ]_vars

C5_Witness ==
    /\ op.name = "async_set_ptc_on"
    /\ response = DeviceException
    /\ state = "True"
    /\ ~available

NotOkResponses == Responses \ {SUCCESS, DeviceException}

\* C6: a command whose response is anything other than ["ok"], without a
\* transport error, changes nothing on the entity: availability, power,
\* attributes and the skip-next-poll flag stay, and nothing is raised.
C6_NotOkIsNoOp ==
    [][(CommandRan_next /\ response' \in NotOkResponses) =>
            /\ result' = "False"
            /\ raised' = "None"
            /\ UNCHANGED <<available, state, state_attrs, skip_update>>]_vars

C6_Witness ==
    /\ op.name = "async_turn_off"
    /\ response = PyList(<<"error">>)
    /\ available
    /\ state = "True"
    /\ impl = Legacy

RECURSIVE RequestedNames(_)
\* the names of a sequence of get_prop calls, concatenated
RequestedNames(calls) ==
    IF calls = <<>> THEN <<>> ELSE Head(calls).params.val \o RequestedNames(Tail(calls))

\* C7: a poll of N properties (14 in custom_components, 4 in xiaomi_airfresh)
\* issues ceil(N/4) get_prop calls (4 and 1), each of at most 4 names, whose
\* names in order are the property list; the snapshot maps the i-th name to
\* the i-th value, and [True, 12, 430, "auto"] for [power, pm25, co2, mode]
\* gives is_on = True, pm25 = 12, co2 = 430 and mode = Auto.
C7_ChunkedInOrder ==
    (PollRan /\ status.kind = "snapshot") =>
        /\ Len(sent) = (IF impl = Custom THEN 4 ELSE 1)
        /\ ChunkSize * (Len(sent) - 1) < Len(Properties(impl))
        /\ Len(Properties(impl)) <= ChunkSize * Len(sent)
        /\ \A k \in 1..Len(sent) :
              /\ sent[k].method = "get_prop"
              /\ sent[k].params.type = "list"
              /\ Len(sent[k].params.val) <= 4
        /\ RequestedNames(sent) = Properties(impl)
        /\ \A k \in 1..Len(Properties(impl)) :
              k <= Len(status.values) =>
                  DataGet(status.data, Properties(impl)[k]) = status.values[k]
        /\ (impl = Legacy /\ status.values = <<"True", "12", "430", "auto">>) =>
              /\ IsOn(status.data) = "True"
              /\ state = "True"
              /\ state_attrs["pm25"] = "12"
              /\ state_attrs["co2"] = "430"
              /\ StatusGetattr(status.data, ATTR_MODE).member.name = <<"A", "u", "t", "o">>

C7_Witness ==
    /\ PollRan
    /\ impl = Custom
    /\ Len(sent) = 4
    /\ Len(status.values) = 14
    /\ status.data["mode"] = "favourite"
    /\ status.data["display"] = "False"

\* the values a device in state `profile` reports, one for each property
Reported(profile) == [k \in 1..Len(Properties(impl)) |-> profile[Properties(impl)[k]]]

\* C8: after a poll that is not skipped and whose get_prop calls all answer
\* with one value per name, the entity is available, is_on tells whether the
\* reported power is True and every exposed attribute has the reported value
\* (the mode as its lower-case token), whatever the entity's state before.
C8_PollSetsState ==
    \A profile \in Profiles :
        (PollRan /\ status.kind = "snapshot" /\ status.values = Reported(profile)) =>
            /\ raised = "None"
            /\ available
            /\ state = profile["power"]
            /\ \A k \in 1..Len(AVAILABLE_ATTRIBUTES_AIRFRESH(impl)) :
                  LET a == AVAILABLE_ATTRIBUTES_AIRFRESH(impl)[k]
                  IN  state_attrs[a] = profile[a]
            /\ state_attrs[ATTR_MODE] \in {"off", "auto", "sleep", "favourite"}

C8_Witness ==
    /\ PollRan
    /\ impl = Custom
    /\ status.kind = "snapshot"
    /\ status.values = Reported(ProfileOff)
    /\ available
    /\ state = "False"
    /\ state_attrs[ATTR_MODE] = "favourite"
    /\ state_attrs["sound"] = "False"

IsSpeed(arg, lower) == LowerOf(arg) = lower
SpeedHandlerRan == op.name \in {"async_turn_on", "async_set_speed"}

\* C9: async_turn_on with the speed "Favourite", "Auto" or "Sleep", in any
\* letter case, issues what async_set_speed issues for it: one set_mode with
\* the lower-case token, and no set_power.
C9_TurnOnWithSpeedSetsMode ==
    \A m \in OperationMode :
        (SpeedHandlerRan /\ m.value # "off" /\ IsSpeed(op.arg, LowerOf(m.name))) =>
            /\ sent = <<Call("set_mode", PyStr(m.value))>>
            /\ \A k \in 1..Len(sent) : sent[k].method # "set_power"

C9_Witness ==
    /\ op.name = "async_turn_on"
    /\ op.arg = <<"F", "A", "V", "O", "U", "R", "I", "T", "E">>
    /\ sent = <<Call("set_mode", PyStr("favourite"))>>
    /\ response = SUCCESS

\* C10: the speed "Off", through async_set_speed or async_turn_on, issues one
\* set_power [False] and no set_mode; set_mode is never sent with "off".
C10_OffIsPowerOff ==
    /\ (SpeedHandlerRan /\ IsSpeed(op.arg, <<"o", "f", "f">>)) =>
            sent = <<Call("set_power", PyList(<<"False">>))>>
    /\ \A k \in 1..Len(sent) :
            sent[k].method = "set_mode" =>
                (sent[k].params.type = "str" /\ sent[k].params.val # "off")

C10_Witness ==
    /\ op.name = "async_turn_on"
    /\ op.arg = <<"o", "f", "f">>
    /\ sent = <<Call("set_power", PyList(<<"False">>))>>
    /\ response = SUCCESS
    /\ state = "False"
    /\ skip_update

TurnOnOffRan_next ==
    /\ impl = Legacy
    /\ op'.name \in {"async_turn_on", "async_turn_off"}
    /\ sent' # <<>>
Commanded(o) == IF o.name = "async_turn_on" THEN "True" ELSE "False"

\* C11: in xiaomi_airfresh/fan.py a turn-on (with or without a speed) or a
\* turn-off whose device command is answered ["ok"] sets the power to the
\* commanded value (True for turn-on, False for turn-off) and arms the
\* skip-next-poll flag; one whose command fails changes neither.
C11_OkSetsPowerAndSkip ==
    [][TurnOnOffRan_next =>
          IF IsOkList(response')
          THEN state' = Commanded(op') /\ skip_update'
          ELSE state' = state /\ skip_update' = skip_update]_vars

\* An operation has just failed with a transport error and marked the entity
\* unavailable.
FailureRan ==
    \/ CommandRan /\ response = DeviceException
    \/ PollRan /\ status.kind = "DeviceException"
\* A step that is the host invoking a poll.
PollInvoked == op = NoOp /\ op' = UpdateOp /\ ~updating
\* The poll invoked by the step goes on to call the device exactly when the
\* skip flag is not set at that moment, and a poll that calls the device
\* issues get_prop and nothing else.
PollContactsUnlessSkipped ==
    /\ PollInvoked => (updating' <=> ~skip_update)
    /\ PollRan_next =>
          /\ sent' # <<>>
          /\ \A k \in 1..Len(sent') : sent'[k].method = "get_prop"
\* The failing operation sent nothing twice: a command one call, a poll each
\* chunk at most once.
NoRetry ==
    /\ (CommandRan /\ response = DeviceException) => Len(sent) = 1
    /\ (PollRan /\ status.kind = "DeviceException") =>
          \A j, k \in 1..Len(sent) : j # k => sent[j] # sent[k]

\* C12 as stated: after a failure of a poll or of a command has marked the
\* device unavailable, the very next poll invoked by the host contacts the
\* device (issues get_prop): nothing left behind by the failing operation makes
\* that poll skip; and the failing operation itself does not retry.
C12_NextPollContactsDevice ==
    /\ [](FailureRan => (~available /\ ~skip_update /\ NoRetry))
    /\ [][PollContactsUnlessSkipped]_vars

\* C12 amended: the poll after a failure contacts the device unless the skip
\* flag of xiaomi_airfresh/fan.py is armed at that poll, in which case that
\* poll only clears the flag; in custom_components the flag is never armed
\* after a failure, so the very next poll contacts the device.  The failing
\* operation does not retry.
C12_NextPollContactsUnlessSkipArmed ==
    /\ [](FailureRan => (~available /\ NoRetry /\ (impl = Custom => ~skip_update)))
    /\ [][PollContactsUnlessSkipped]_vars
    /\ [][(PollInvoked /\ skip_update) =>
             (~skip_update' /\ sent' = <<>> /\ available' = available)]_vars

\* A poll is contacting the device of an entity that a failure had marked
\* unavailable after an earlier successful poll.
C12_Witness ==
    /\ impl = Custom
    /\ op = UpdateOp
    /\ updating
    /\ ~available
    /\ state = "True"
    /\ ~skip_update

\* The devices a service call with this entity filter targets.
Targeted(h, entity_ids) ==
    ~entity_ids.given \/ entity_ids.ids = {} \/ EntityId(h) \in entity_ids.ids

\* The wire name and parameter of each service.
WireCall(service, params) ==
    CASE service = "airfresh_set_ptc_on" -> Call("set_ptc_on", PyList(<<"True">>))
      [] service = "airfresh_set_ptc_off" -> Call("set_ptc_on", PyList(<<"False">>))
      [] service = "airfresh_set_sound_on" -> Call("set_sound_on", PyList(<<"True">>))
      [] service = "airfresh_set_sound_off" -> Call("set_sound_on", PyList(<<"False">>))
      [] service = "airfresh_set_display_on" -> Call("set_display_on", PyList(<<"True">>))
      [] service = "airfresh_set_display_off" -> Call("set_display_on", PyList(<<"False">>))
      [] service = "airfresh_set_filter_reset" ->
            Call("set_filter_reset", PyList(<<"True">>))
      [] service = "airfresh_set_favourite_speed" ->
            Call("set_favourite_speed", PyList(params))

\* C13: each of the eight services issues exactly one device command per
\* targeted device, with the wire name and parameter of the table (ptc_on ->
\* set_ptc_on [true], ..., favourite_speed(s) -> set_favourite_speed [s]), and
\* none of them issues set_power or set_mode.
C13_ServiceIssuesOneCommand ==
    handler.pc # "idle" =>
        \A h \in Range(Hosts) :
            /\ handler.received[h] \in
                  {<<>>, <<WireCall(handler.service, handler.params)>>}
            /\ (handler.pc \in {"refresh", "done"} /\ Targeted(h, handler.entity_ids))
                  => Len(handler.received[h]) = 1
            /\ \A k \in 1..Len(handler.received[h]) :
                  handler.received[h][k].method \notin {"set_power", "set_mode"}

C13_Witness ==
    /\ handler.pc = "done"
    /\ handler.service = "airfresh_set_favourite_speed"
    /\ handler.params = <<"200">>
    /\ \A h \in Range(Hosts) :
          handler.received[h] = <<Call("set_favourite_speed", PyList(<<"200">>))>>

\* C15: a service call with an entity filter sends its command only to the
\* registered devices whose entity id is in the filter, and with no filter to
\* every registered device; each device that received the command gets a
\* forced refresh requested after the command completed, whether it succeeded
\* or failed, and a device outside the filter gets neither.
C15_FilterThenRefresh ==
    handler.pc # "idle" =>
        \A h \in Range(Hosts) :
            /\ ~Targeted(h, handler.entity_ids) =>
                  /\ handler.received[h] = <<>>
                  /\ handler.refreshed[h] = 0
                  /\ h \notin handler.pending
                  /\ h \notin Range(handler.update_tasks)
            /\ (handler.pc = "done" /\ Targeted(h, handler.entity_ids)) =>
                  /\ Len(handler.received[h]) = 1
                  /\ handler.results[h] \in {"True", "False"}
                  /\ handler.refreshed[h] = 1
            /\ (handler.refreshed[h] > 0 \/ h \in handler.pending) =>
                  /\ Len(handler.received[h]) = 1
                  /\ handler.todo = <<>>
            /\ h \in Range(handler.update_tasks) <=> handler.received[h] # <<>>

C15_Witness ==
    /\ handler.pc = "done"
    /\ handler.entity_ids =
          [given |-> TRUE, ids |-> {"fan.airfresh_kitchen", "fan.other"}]
    /\ handler.received["192.168.1.11"] # <<>>
    /\ handler.results["192.168.1.11"] = "False"
    /\ ~devices["192.168.1.11"].available
    /\ handler.refreshed["192.168.1.11"] = 1
    /\ handler.received["192.168.1.10"] = <<>>
    /\ handler.refreshed["192.168.1.10"] = 0

\* C14: the skip-next-poll flag is one-shot: however many successful
\* turn-on/off commands armed it, the next poll invoked issues no get_prop,
\* changes neither availability, power nor attributes, and clears the flag;
\* a poll invoked with the flag clear goes on to call the device with
\* get_prop, and only a successful turn-on/off (a set_power answered ["ok"],
\* also when async_set_speed("off") issues it) arms the flag again.
C14_SkipIsOneShot ==
    /\ [][PollInvoked =>
            IF skip_update
            THEN /\ ~skip_update'
                 /\ ~updating'
                 /\ sent' = <<>>
                 /\ UNCHANGED <<available, state, state_attrs>>
            ELSE /\ ~skip_update'
                 /\ updating']_vars
    /\ [][PollRan_next =>
            /\ updating /\ ~updating'
            /\ sent' # <<>>
            /\ \A k \in 1..Len(sent') : sent'[k].method = "get_prop"]_vars
    /\ [][(~skip_update /\ skip_update') =>
            /\ CommandRan_next
            /\ sent'[1].method = "set_power"
            /\ IsOkList(response')]_vars

\* A poll has just been skipped: it returned without calling the device and
\* left the optimistic power of an entity that was never polled.
C14_Witness ==
    /\ impl = Legacy
    /\ op = UpdateOp
    /\ ~updating
    /\ status.kind = "none"
    /\ sent = <<>>
    /\ ~skip_update
    /\ ~available
    /\ state = "False"

\* C16: in xiaomi_airfresh/fan.py, when a turn-on or turn-off succeeds while
\* a poll of the entity is awaiting get_status (the flag is armed and the poll
\* is in flight), the continuation of that poll does not overwrite the
\* optimistic power: after both completed the power is the commanded value.
C16_InFlightPollKeepsOptimisticPower ==
    [][(impl = Legacy /\ updating /\ skip_update /\ PollRan_next) =>
          state' = state]_vars

\* C17: whenever the power is on, the stored mode is one of the four wire
\* tokens off/auto/sleep/favourite, so that reading the speed property does
\* not fail, after any sequence of polls and commands.
C17_ModeKnownWhenOn ==
    state = "True" =>
        /\ state_attrs[ATTR_MODE] \in {"off", "auto", "sleep", "favourite"}
        /\ SpeedProperty(state, state_attrs).raised = "None"

\* A poll has just made the entity available with the power the device
\* reported.
Synced ==
    /\ PollRan
    /\ status.kind = "snapshot"
    /\ available
    /\ state = status.data["power"]

\* C18 as stated: once the device answers every request correctly and the
\* host keeps invoking polls, the entity eventually becomes available with
\* the device's power, even while successful turn-on/off commands keep
\* arriving between the polls.
C18_EventuallyAvailable == <>Synced

\* C18 amended: the entity eventually becomes available provided some poll is
\* invoked while the skip flag is not armed (such a poll is in flight:
\* `updating`); in custom_components, where no command arms the flag, it
\* always does.
C18_AvailableUnlessPollsSkipped ==
    /\ (impl = Custom) ~> Synced
    /\ updating ~> Synced

C18_Witness ==
    /\ impl = Legacy
    /\ Synced
    /\ state = "False"
    /\ skip_update

\* C19: in custom_components/xiaomi_airfresh/fan.py the skip-next-poll flag
\* is never set and the power changes only inside a poll: no command
\* (turn-on, turn-off, set-speed or a service), successful or not, changes
\* power or attributes, so every poll the host invokes issues get_prop.
C19_CustomNeverSkips ==
    /\ [](impl = Custom => ~skip_update)
    /\ [][impl = Custom =>
            /\ (state' # state \/ state_attrs' # state_attrs) => PollRan_next
            /\ op'.name \notin {"none", "async_update"} =>
                  UNCHANGED <<state, state_attrs, skip_update>>
            /\ PollInvoked => updating'
            /\ PollRan_next =>
                  /\ sent' # <<>>
                  /\ \A k \in 1..Len(sent') : sent'[k].method = "get_prop"]_vars

\* A turn-off answered ["ok"] has left the power on.
C19_Witness ==
    /\ impl = Custom
    /\ op.name = "async_turn_off"
    /\ IsOkList(response)
    /\ result = "True"
    /\ state = "True"
    /\ ~skip_update

====
